---------------------------- MODULE Spec2Model ----------------------------
(***************************************************************************)
(* A model of ltask: the interval-indexed availability calendar            *)
(* (src/src/schedule.rs) and the shell-script task (src/src/task/bash.rs,  *)
(* with the status type of src/src/task/tasks.rs).                         *)
(*                                                                         *)
(* Four specifications share the variables:                                *)
(*   SpecIndexer  the two pure conversions applied to enumerated inputs    *)
(*   SpecDay      one DaySchedule under set_time_status calls              *)
(*   SpecWeek     one WeekSchedule under set_time_status calls             *)
(*   Spec         one BashScriptTask, its caller and the operating system  *)
(***************************************************************************)
EXTENDS Integers, Sequences, FiniteSets, TLC

VARIABLES
    idx,        \* a call of a conversion function: its arguments and, once done, its result
    day,        \* a DaySchedule
    dayLog,     \* the set_time_status calls made on day, each with the blocks it wrote
    week,       \* a WeekSchedule: days, a map from Weekday to DaySchedule
    weekLog,    \* the set_time_status calls made on week
    task,       \* a BashScriptTask, once BashScriptTask::new has returned one
    os,         \* the processes the task has spawned, as the operating system has them
    calls       \* the calls made on the task, each with what it returned

vars == <<idx, day, dayLog, week, weekLog, task, os, calls>>
scheduleVars == <<idx, day, dayLog, week, weekLog>>
taskVars == <<task, os, calls>>

(***************************************************************************)
(* Bounds of the model.                                                    *)
(***************************************************************************)
MaxIntervalSize == 61
MaxDayCalls == 2
MaxWeekCalls == 2
MaxCalls == 4
MaxSpawns == 2

(***************************************************************************)
(* Option, and a panic as a value.                                         *)
(***************************************************************************)
None == [tag |-> "None"]
Some(v) == [tag |-> "Some", value |-> v]
Panic(m) == [tag |-> "panic", msg |-> m]
IsPanic(x) == x.tag = "panic"

\* Option::unwrap
unwrap(o) ==
    IF o.tag = "Some" THEN o.value
    ELSE Panic("called Option::unwrap() on a None value")

(***************************************************************************)
(* chrono::NaiveTime: the number of seconds since midnight.                *)
(***************************************************************************)
from_hms_opt(h, m, s) ==
    IF h >= 24 \/ m >= 60 \/ s >= 60 THEN None
    ELSE Some([tag |-> "time", secs |-> h * 3600 + m * 60 + s])

hour(t) == t.secs \div 3600
minute(t) == (t.secs \div 60) % 60

TimeStatus == {"Free", "Busy"}
Weekday == {"Mon", "Tue", "Wed", "Thu", "Fri", "Sat", "Sun"}

(***************************************************************************)
(* Interval indexer.                                                       *)
(***************************************************************************)
index_to_time_range(index, interval_size) ==
    IF interval_size = 0 THEN Panic("attempt to divide by zero")
    ELSE IF index >= 1440 \div interval_size THEN Panic("Time index out of range")
    ELSE IF interval_size > 60
    THEN Panic("Interval size cannot be greater than 60 minutes")
    ELSE
        LET start_minute == index * interval_size
            start == unwrap(from_hms_opt(start_minute \div 60, start_minute % 60, 0))
            end_minute == (index + 1) * interval_size
            end == IF end_minute >= 1440
                   THEN unwrap(from_hms_opt(11, 59, 59))
                   ELSE unwrap(from_hms_opt(end_minute \div 60, end_minute % 60, 0))
        IN  IF IsPanic(start) THEN start
            ELSE IF IsPanic(end) THEN end
            ELSE [tag |-> "range", start |-> start, end |-> end]

\* time_to_range_index without the test of the interval size
time_to_range_index_unguarded(time, interval_size) ==
    LET minute_of_day == hour(time) * 60 + minute(time)
    IN  IF interval_size = 0 THEN Panic("attempt to divide by zero")
        ELSE [tag |-> "index", value |-> minute_of_day \div interval_size]

\* time_to_range_index without the hours: the minute within the hour only
time_to_range_index_minute_only(time, interval_size) ==
    IF interval_size > 60
    THEN Panic("Interval size cannot be greater than 60 minutes")
    ELSE IF interval_size = 0 THEN Panic("attempt to divide by zero")
    ELSE [tag |-> "index", value |-> minute(time) \div interval_size]

time_to_range_index(time, interval_size) ==
    IF interval_size > 60
    THEN Panic("Interval size cannot be greater than 60 minutes")
    ELSE
        LET minute_of_day == hour(time) * 60 + minute(time)
        IN  IF interval_size = 0 THEN Panic("attempt to divide by zero")
            ELSE [tag |-> "index", value |-> minute_of_day \div interval_size]

(***************************************************************************)
(* DaySchedule.                                                            *)
(***************************************************************************)
TimeBlock(start, end, block_type) ==
    [start |-> start, end |-> end, block_type |-> block_type]

\* DaySchedule::new with every block Free
DaySchedule_new_free ==
    [blocks |-> [k \in 1..96 |->
                   LET r == index_to_time_range(k - 1, 15)
                   IN  TimeBlock(r.start, r.end, "Free")],
     interval_size |-> 15]

\* blocks is a Vec, indexed from 0; the sequence that models it is indexed from 1
DaySchedule_new ==
    LET interval_size == 15
        blocks == [k \in 1..96 |->
                     LET r == index_to_time_range(k - 1, interval_size)
                     IN  TimeBlock(r.start, r.end, "Busy")]
    IN  [blocks |-> blocks, interval_size |-> interval_size]

DaySchedule_get_time_status(self, time) ==
    LET index == time_to_range_index(time, self.interval_size)
    IN  IF IsPanic(index) THEN index
        ELSE IF index.value >= Len(self.blocks) THEN Panic("index out of bounds")
        ELSE [tag |-> "status", value |-> self.blocks[index.value + 1].block_type]

\* The indices start_index, start_index + 1, ... below end_index, in order.
IndexRange(start_index, end_index) ==
    IF end_index <= start_index THEN <<>>
    ELSE [j \in 1..(end_index - start_index) |-> start_index + j - 1]

\* the loop over the closed range start_index..=end_index
SetLoop_inclusive(blocks, start_index, end_index, status) ==
    IF start_index <= end_index /\ end_index + 1 > Len(blocks)
    THEN Panic("index out of bounds")
    ELSE [tag |-> "ok",
          blocks |-> [k \in 1..Len(blocks) |->
                        IF start_index <= k - 1 /\ k - 1 <= end_index
                        THEN [blocks[k] EXCEPT !.block_type = status]
                        ELSE blocks[k]],
          written |-> IndexRange(start_index, end_index + 1)]

\* for i in start_index..end_index { self.blocks[i].block_type = status; }
\* Each index of the half-open range is assigned once, in order; an index past
\* the last block panics. The result carries the blocks and the indices assigned.
SetLoop(blocks, start_index, end_index, status) ==
    IF start_index < end_index /\ end_index > Len(blocks)
    THEN Panic("index out of bounds")
    ELSE [tag |-> "ok",
          blocks |-> [k \in 1..Len(blocks) |->
                        IF start_index <= k - 1 /\ k - 1 < end_index
                        THEN [blocks[k] EXCEPT !.block_type = status]
                        ELSE blocks[k]],
          written |-> IndexRange(start_index, end_index)]

\* set_time_status with an end_time inside a block rounded up to the next block
DaySchedule_set_time_status_ceil_end(self, start_time, end_time, status) ==
    LET start_index == time_to_range_index(start_time, self.interval_size)
        end_index == time_to_range_index(end_time, self.interval_size)
        up == IF end_time.secs % (self.interval_size * 60) = 0 THEN 0 ELSE 1
    IN  IF IsPanic(start_index) THEN start_index
        ELSE IF IsPanic(end_index) THEN end_index
        ELSE LET r == SetLoop(self.blocks, start_index.value, end_index.value + up,
                              status)
             IN  IF IsPanic(r) THEN r
                 ELSE [tag |-> "ok",
                       self |-> [self EXCEPT !.blocks = r.blocks],
                       written |-> r.written]

DaySchedule_set_time_status(self, start_time, end_time, status) ==
    LET start_index == time_to_range_index(start_time, self.interval_size)
        end_index == time_to_range_index(end_time, self.interval_size)
    IN  IF IsPanic(start_index) THEN start_index
        ELSE IF IsPanic(end_index) THEN end_index
        ELSE LET r == SetLoop(self.blocks, start_index.value, end_index.value,
                              status)
             IN  IF IsPanic(r) THEN r
                 ELSE [tag |-> "ok",
                       self |-> [self EXCEPT !.blocks = r.blocks],
                       written |-> r.written]

(***************************************************************************)
(* WeekSchedule.                                                           *)
(***************************************************************************)
WeekSchedule_default ==
    [days |-> [d \in Weekday |-> DaySchedule_new]]

WeekSchedule_get_time_status(self, d, time) ==
    DaySchedule_get_time_status(self.days[d], time)

\* set_time_status on a week whose weekdays share one DaySchedule
WeekSchedule_set_time_status_shared(self, d, start_time, end_time, status) ==
    LET r == DaySchedule_set_time_status(self.days[d], start_time, end_time, status)
    IN  IF IsPanic(r) THEN r
        ELSE [tag |-> "ok", self |-> [self EXCEPT !.days = [e \in Weekday |-> r.self]],
              written |-> r.written]

WeekSchedule_set_time_status(self, d, start_time, end_time, status) ==
    LET r == DaySchedule_set_time_status(self.days[d], start_time, end_time, status)
    IN  IF IsPanic(r) THEN r
        ELSE [tag |-> "ok", self |-> [self EXCEPT !.days[d] = r.self],
              written |-> r.written]

(***************************************************************************)
(* RunnableStatus, and std::process::ExitStatus.                           *)
(***************************************************************************)
Waiting == [tag |-> "Waiting"]
Running == [tag |-> "Running"]
Finished == [tag |-> "Finished"]
Killed == [tag |-> "Killed"]
\* Error(String): the message as the sequence of its parts
Error(m) == [tag |-> "Error", msg |-> m]

Exited(code) == [tag |-> "exit", code |-> code]
Signaled(sig) == [tag |-> "signal", sig |-> sig]
SIGKILL == 9

\* ExitStatus::success
success(e) == e.tag = "exit" /\ e.code = 0

\* ExitStatus as format!("{}", status) prints it
Display(e) ==
    IF e.tag = "exit" THEN <<"exit status: ", e.code>> ELSE <<"signal: ", e.sig>>

(***************************************************************************)
(* The operating system: each process the task may spawn is not yet        *)
(* spawned, running, a zombie (exited and not yet waited for) or reaped.   *)
(* exit is the status it ended with; kill_pending, that a SIGKILL has been *)
(* sent to it and not yet acted on.                                        *)
(***************************************************************************)
Pids == 1..MaxSpawns
NotSpawned == [state |-> "none", exit |-> None, kill_pending |-> FALSE]
Spawned == [state |-> "running", exit |-> None, kill_pending |-> FALSE]

FreePids(o) == {p \in Pids : o[p].state = "none"}

(***************************************************************************)
(* BashScriptTask (src/src/task/bash.rs).                                  *)
(***************************************************************************)
\* a & b on naturals
RECURSIVE BitAnd(_, _)
BitAnd(a, b) ==
    IF a = 0 \/ b = 0 THEN 0
    ELSE (a % 2) * (b % 2) + 2 * BitAnd(a \div 2, b \div 2)

Ok(v) == [tag |-> "Ok", value |-> v]
Err(kind) == [tag |-> "Err", kind |-> kind]

\* new with the mode test of the BashScriptTask of tasks.rs, which refuses a
\* script that has an execute bit
BashScriptTask_new_inverted_mode(path) ==
    IF ~path.exists THEN Err("NotFound")
    ELSE IF ~path.is_file THEN Err("InvalidInput")
    ELSE IF BitAnd(path.mode, 73) # 0 THEN Err("PermissionDenied")
    ELSE Ok([tag |-> "task", script |-> path, proc |-> None])

\* path: what the file system says of the script path: exists, is_file, mode
BashScriptTask_new(path) ==
    IF ~path.exists THEN Err("NotFound")
    ELSE IF ~path.is_file THEN Err("InvalidInput")
    ELSE IF BitAnd(path.mode, 73) = 0 THEN Err("PermissionDenied")
    ELSE Ok([tag |-> "task", script |-> path, proc |-> None])

\* start() dropping the process it owns when spawn fails
BashScriptTask_start_failure_clears_proc(self, o, spawned) ==
    IF spawned.tag = "None"
    THEN [self |-> [self EXCEPT !.proc = None], os |-> o,
          ret |-> Error(<<"Failed to start script: ", "spawn error">>)]
    ELSE [self |-> [self EXCEPT !.proc = Some([pid |-> spawned.value, status |-> None])],
          os |-> [o EXCEPT ![spawned.value] = Spawned],
          ret |-> Running]

\* start with the outcome of Command::spawn given: spawned, Some(pid) of the new
\* process or None when spawn failed. The Child start replaces is dropped, which
\* neither kills nor waits for its process.
BashScriptTask_start(self, o, spawned) ==
    IF spawned.tag = "None"
    THEN [self |-> self, os |-> o,
          ret |-> Error(<<"Failed to start script: ", "spawn error">>)]
    ELSE [self |-> [self EXCEPT !.proc = Some([pid |-> spawned.value, status |-> None])],
          os |-> [o EXCEPT ![spawned.value] = Spawned],
          ret |-> Running]

\* try_wait never finding the process ended
try_wait_never_ready(child, o) ==
    [child |-> child, os |-> o, result |-> child.status]

\* try_wait not keeping the status it has read
try_wait_no_cache(child, o) ==
    IF child.status.tag = "Some"
    THEN [child |-> child, os |-> o, result |-> child.status]
    ELSE IF o[child.pid].state = "zombie"
    THEN [child |-> child,
          os |-> [o EXCEPT ![child.pid].state = "reaped"],
          result |-> Some(o[child.pid].exit)]
    ELSE [child |-> child, os |-> o, result |-> None]

\* Child::try_wait: the status kept from an earlier wait, or a waitpid with
\* WNOHANG, which reaps a zombie and keeps its status
try_wait(child, o) ==
    IF child.status.tag = "Some"
    THEN [child |-> child, os |-> o, result |-> child.status]
    ELSE IF o[child.pid].state = "zombie"
    THEN [child |-> [child EXCEPT !.status = Some(o[child.pid].exit)],
          os |-> [o EXCEPT ![child.pid].state = "reaped"],
          result |-> Some(o[child.pid].exit)]
    ELSE [child |-> child, os |-> o, result |-> None]

\* status() returning Finished whatever the exit status
BashScriptTask_status_any_exit_finished(self, o) ==
    IF self.proc.tag = "Some"
    THEN LET w == try_wait(self.proc.value, o)
         IN  [self |-> [self EXCEPT !.proc = Some(w.child)],
              os |-> w.os,
              ret |-> IF w.result.tag = "Some" THEN Finished ELSE Running]
    ELSE [self |-> self, os |-> o, ret |-> Waiting]

\* status() of a task without a process returning Running
BashScriptTask_status_none_running(self, o) ==
    IF self.proc.tag = "Some"
    THEN LET w == try_wait(self.proc.value, o)
         IN  [self |-> [self EXCEPT !.proc = Some(w.child)],
              os |-> w.os,
              ret |-> IF w.result.tag = "Some"
                      THEN IF success(w.result.value) THEN Finished
                           ELSE Error(<<"Script failed with status ",
                                        Display(w.result.value)>>)
                      ELSE Running]
    ELSE [self |-> self, os |-> o, ret |-> Running]

BashScriptTask_status(self, o) ==
    IF self.proc.tag = "Some"
    THEN LET w == try_wait(self.proc.value, o)
         IN  [self |-> [self EXCEPT !.proc = Some(w.child)],
              os |-> w.os,
              ret |-> IF w.result.tag = "Some"
                      THEN IF success(w.result.value) THEN Finished
                           ELSE Error(<<"Script failed with status ",
                                        Display(w.result.value)>>)
                      ELSE Running]
    ELSE [self |-> self, os |-> o, ret |-> Waiting]

\* Child::kill. A Child whose status is kept sends nothing: the standard library
\* returns Ok(()) for it, and before Rust 1.72 returned an InvalidInput error
\* (exited_is_ok tells which). Otherwise kill(pid, SIGKILL), which delivered
\* tells to succeed or fail; sent to a zombie it succeeds and changes nothing.
Child_kill(child, o, delivered, exited_is_ok) ==
    IF child.status.tag = "Some"
    THEN [os |-> o, ok |-> exited_is_ok]
    ELSE IF delivered
    THEN [os |-> [o EXCEPT ![child.pid].kill_pending =
                                 (o[child.pid].state = "running")],
          ok |-> TRUE]
    ELSE [os |-> o, ok |-> FALSE]

\* kill() returning Killed whatever Child::kill returned
BashScriptTask_kill_always_killed(self, o, delivered, exited_is_ok) ==
    IF self.proc.tag = "Some"
    THEN LET k == Child_kill(self.proc.value, o, delivered, exited_is_ok)
         IN  [self |-> self, os |-> k.os, ret |-> Killed]
    ELSE [self |-> self, os |-> o, ret |-> Waiting]

\* kill() of a task without a process returning Killed
BashScriptTask_kill_none_killed(self, o, delivered, exited_is_ok) ==
    IF self.proc.tag = "Some"
    THEN LET k == Child_kill(self.proc.value, o, delivered, exited_is_ok)
         IN  [self |-> self, os |-> k.os,
              ret |-> IF k.ok THEN Killed ELSE Error(<<"Failed to kill script">>)]
    ELSE [self |-> self, os |-> o, ret |-> Killed]

BashScriptTask_kill(self, o, delivered, exited_is_ok) ==
    IF self.proc.tag = "Some"
    THEN LET k == Child_kill(self.proc.value, o, delivered, exited_is_ok)
         IN  [self |-> self, os |-> k.os,
              ret |-> IF k.ok THEN Killed ELSE Error(<<"Failed to kill script">>)]
    ELSE [self |-> self, os |-> o, ret |-> Waiting]

(***************************************************************************)
(* Inputs.                                                                 *)
(***************************************************************************)
hms(h, m, s) == unwrap(from_hms_opt(h, m, s))

\* the times the conversions are applied to
IndexerTimes ==
    {hms(h, m, s) : h \in 0..23, m \in {0, 14, 15, 44, 59}, s \in {0, 59}}

IntervalSizes == 0..MaxIntervalSize

IndexInputs(s) == IF s = 0 THEN 0..1 ELSE 0..((1440 \div s) + 1)

\* the times set_time_status is called with: block-aligned ones, one inside a
\* block, and the last second of the day
SetTimes ==
    {hms(0, 0, 0), hms(2, 15, 0), hms(2, 48, 0), hms(3, 15, 0), hms(23, 59, 59)}

WeekSetTimes == {hms(2, 15, 0), hms(3, 15, 0)}
WeekSetDays == {"Mon", "Tue", "Wed"}

\* the times get_time_status is asked about: starts of blocks and times inside blocks
QueryTimes ==
    {hms(0, 0, 0), hms(2, 14, 59), hms(2, 15, 0), hms(2, 17, 0), hms(2, 48, 0),
     hms(3, 14, 59), hms(3, 15, 0), hms(12, 0, 0), hms(23, 44, 59), hms(23, 45, 0),
     hms(23, 59, 59)}

\* the script paths BashScriptTask::new is called with: a missing path, a
\* directory with and one without execute bits (modes 0o040755, 0o040644), and
\* regular files of modes 0o100644, 0o100755, 0o100100, 0o100001 and 0o100000
ScriptPaths ==
    {[exists |-> FALSE, is_file |-> FALSE, mode |-> 0],
     [exists |-> TRUE, is_file |-> FALSE, mode |-> 16877],
     [exists |-> TRUE, is_file |-> FALSE, mode |-> 16804]}
        \cup {[exists |-> TRUE, is_file |-> TRUE, mode |-> m] :
                 m \in {33188, 33261, 32832, 32769, 32768}}

\* the exit codes of a script that ends by itself
ExitCodes == {0, 1, 127}

\* the value of day, week or task in a program that has constructed none
Absent == [tag |-> "absent"]

\* no task constructed, no process spawned, no call made
TaskNotMade ==
    /\ task = Absent
    /\ os = [p \in Pids |-> NotSpawned]
    /\ calls = <<>>

(***************************************************************************)
(* SpecIndexer: the initial state holds the arguments of one call of a     *)
(* conversion, and the call computes its result.                           *)
(***************************************************************************)
InitIndexer ==
    /\ \/ \E s \in IntervalSizes : \E i \in IndexInputs(s) :
             idx = [fn |-> "index_to_time_range", index |-> i, interval_size |-> s,
                    done |-> FALSE]
       \/ \E s \in IntervalSizes : \E t \in IndexerTimes :
             idx = [fn |-> "time_to_range_index", time |-> t, interval_size |-> s,
                    done |-> FALSE]
    /\ day = Absent
    /\ dayLog = <<>>
    /\ week = Absent
    /\ weekLog = <<>>
    /\ TaskNotMade

CallIndexToTimeRange ==
    /\ idx.fn = "index_to_time_range"
    /\ ~idx.done
    /\ idx' = [fn |-> idx.fn, index |-> idx.index, interval_size |-> idx.interval_size,
               done |-> TRUE,
               result |-> index_to_time_range(idx.index, idx.interval_size)]
    /\ UNCHANGED <<day, dayLog, week, weekLog, task, os, calls>>

CallTimeToRangeIndex ==
    /\ idx.fn = "time_to_range_index"
    /\ ~idx.done
    /\ idx' = [fn |-> idx.fn, time |-> idx.time, interval_size |-> idx.interval_size,
               done |-> TRUE,
               result |-> time_to_range_index(idx.time, idx.interval_size)]
    /\ UNCHANGED <<day, dayLog, week, weekLog, task, os, calls>>

NextIndexer == CallIndexToTimeRange \/ CallTimeToRangeIndex

SpecIndexer == InitIndexer /\ [][NextIndexer]_vars

(***************************************************************************)
(* SpecDay: a new DaySchedule, and the set_time_status calls on it.        *)
(***************************************************************************)
InitDay ==
    /\ idx = [fn |-> "none", done |-> TRUE]
    /\ day = DaySchedule_new
    /\ dayLog = <<>>
    /\ week = Absent
    /\ weekLog = <<>>
    /\ TaskNotMade

DaySetTimeStatus ==
    /\ Len(dayLog) < MaxDayCalls
    /\ \E start_time \in SetTimes, end_time \in SetTimes, status \in TimeStatus :
          LET r == DaySchedule_set_time_status(day, start_time, end_time, status)
          IN  /\ ~IsPanic(r)
              /\ day' = r.self
              /\ dayLog' = Append(dayLog, [start_time |-> start_time,
                                           end_time |-> end_time,
                                           status |-> status,
                                           written |-> r.written])
    /\ UNCHANGED <<idx, week, weekLog, task, os, calls>>

NextDay == DaySetTimeStatus

SpecDay == InitDay /\ [][NextDay]_vars

(***************************************************************************)
(* SpecWeek: a default WeekSchedule beside a new DaySchedule, and the      *)
(* set_time_status calls on the week.                                      *)
(***************************************************************************)
InitWeek ==
    /\ idx = [fn |-> "none", done |-> TRUE]
    /\ day = DaySchedule_new
    /\ dayLog = <<>>
    /\ week = WeekSchedule_default
    /\ weekLog = <<>>
    /\ TaskNotMade

WeekSetTimeStatus ==
    /\ Len(weekLog) < MaxWeekCalls
    /\ \E d \in WeekSetDays, start_time \in WeekSetTimes, end_time \in WeekSetTimes,
          status \in TimeStatus :
          LET r == WeekSchedule_set_time_status(week, d, start_time, end_time, status)
          IN  /\ ~IsPanic(r)
              /\ week' = r.self
              /\ weekLog' = Append(weekLog, [day |-> d,
                                             start_time |-> start_time,
                                             end_time |-> end_time,
                                             status |-> status])
    /\ UNCHANGED <<idx, day, dayLog, task, os, calls>>

NextWeek == WeekSetTimeStatus

SpecWeek == InitWeek /\ [][NextWeek]_vars

(***************************************************************************)
(* Spec: one BashScriptTask, the calls of its owner and the processes.     *)
(***************************************************************************)
Init ==
    /\ idx = [fn |-> "none", done |-> TRUE]
    /\ day = Absent
    /\ dayLog = <<>>
    /\ week = Absent
    /\ weekLog = <<>>
    /\ TaskNotMade

Call(op, ret) == [op |-> op, ret |-> ret]

\* BashScriptTask::new(script)
New ==
    /\ task = Absent
    /\ Len(calls) < MaxCalls
    /\ \E path \in ScriptPaths :
          LET r == BashScriptTask_new(path)
          IN  /\ task' = IF r.tag = "Ok" THEN r.value ELSE task
              /\ calls' = Append(calls, [op |-> "new", ret |-> r, path |-> path])
    /\ UNCHANGED <<os>>
    /\ UNCHANGED scheduleVars

\* task.start(output, error): spawn succeeds with a new process, or fails
Start ==
    /\ task # Absent
    /\ Len(calls) < MaxCalls
    /\ \E spawned \in {None} \cup {Some(p) : p \in FreePids(os)} :
          LET r == BashScriptTask_start(task, os, spawned)
          IN  /\ task' = r.self
              /\ os' = r.os
              /\ calls' = Append(calls, [op |-> "start", ret |-> r.ret,
                                          spawned |-> spawned])
    /\ UNCHANGED scheduleVars

\* task.status()
Status ==
    /\ task # Absent
    /\ Len(calls) < MaxCalls
    /\ LET r == BashScriptTask_status(task, os)
       IN  /\ task' = r.self
           /\ os' = r.os
           /\ calls' = Append(calls, Call("status", r.ret))
    /\ UNCHANGED scheduleVars

\* task.kill()
Kill ==
    /\ task # Absent
    /\ Len(calls) < MaxCalls
    /\ \E delivered \in BOOLEAN, exited_is_ok \in BOOLEAN :
          LET r == BashScriptTask_kill(task, os, delivered, exited_is_ok)
          IN  /\ task' = r.self
              /\ os' = r.os
              /\ calls' = Append(calls, [op |-> "kill", ret |-> r.ret,
                                          delivered |-> delivered,
                                          exited_is_ok |-> exited_is_ok])
    /\ UNCHANGED scheduleVars

\* a running script ends by itself
ProcessExits ==
    /\ \E p \in Pids, code \in ExitCodes :
          /\ os[p].state = "running"
          /\ ~os[p].kill_pending
          /\ os' = [os EXCEPT ![p].state = "zombie", ![p].exit = Exited(code)]
    /\ UNCHANGED <<task, calls>>
    /\ UNCHANGED scheduleVars

\* a running process that was sent SIGKILL dies of it
ProcessKilled ==
    /\ \E p \in Pids :
          /\ os[p].state = "running"
          /\ os[p].kill_pending
          /\ os' = [os EXCEPT ![p].state = "zombie", ![p].exit = Signaled(SIGKILL),
                               ![p].kill_pending = FALSE]
    /\ UNCHANGED <<task, calls>>
    /\ UNCHANGED scheduleVars

Next == New \/ Start \/ Status \/ Kill \/ ProcessExits \/ ProcessKilled

Spec == Init /\ [][Next]_vars

(***************************************************************************)
(* SpecLive: the same task with an owner that never stops calling. calls   *)
(* holds the latest call alone, so that the owner may poll without end.    *)
(* The owner keeps polling status(), as the callers of bash.rs do after a  *)
(* start, and every process that runs ends: by itself, or of the SIGKILL   *)
(* sent to it.                                                             *)
(***************************************************************************)
NewLive ==
    /\ task = Absent
    /\ \E path \in ScriptPaths :
          LET r == BashScriptTask_new(path)
          IN  /\ task' = IF r.tag = "Ok" THEN r.value ELSE task
              /\ calls' = <<[op |-> "new", ret |-> r, path |-> path]>>
    /\ UNCHANGED <<os>>
    /\ UNCHANGED scheduleVars

StartLive ==
    /\ task # Absent
    /\ \E spawned \in {None} \cup {Some(p) : p \in FreePids(os)} :
          LET r == BashScriptTask_start(task, os, spawned)
          IN  /\ task' = r.self
              /\ os' = r.os
              /\ calls' = <<[op |-> "start", ret |-> r.ret, spawned |-> spawned]>>
    /\ UNCHANGED scheduleVars

StatusLive ==
    /\ task # Absent
    /\ LET r == BashScriptTask_status(task, os)
       IN  /\ task' = r.self
           /\ os' = r.os
           /\ calls' = <<Call("status", r.ret)>>
    /\ UNCHANGED scheduleVars

KillLive ==
    /\ task # Absent
    /\ \E delivered \in BOOLEAN, exited_is_ok \in BOOLEAN :
          LET r == BashScriptTask_kill(task, os, delivered, exited_is_ok)
          IN  /\ task' = r.self
              /\ os' = r.os
              /\ calls' = <<[op |-> "kill", ret |-> r.ret,
                             delivered |-> delivered,
                             exited_is_ok |-> exited_is_ok]>>
    /\ UNCHANGED scheduleVars

NextLive ==
    NewLive \/ StartLive \/ StatusLive \/ KillLive \/ ProcessExits \/ ProcessKilled

\* process p ends
ProcessEnds(p) == (ProcessExits \/ ProcessKilled) /\ os'[p] # os[p]

SpecLive ==
    /\ Init
    /\ [][NextLive]_vars
    /\ WF_vars(StatusLive)
    /\ \A p \in Pids : WF_vars(ProcessEnds(p))

(***************************************************************************)
(* Properties of the interval indexer (SpecIndexer).                       *)
(***************************************************************************)
Divides60(s) == s > 0 /\ 60 % s = 0

IndexToTimeRangeDone == idx.fn = "index_to_time_range" /\ idx.done

\* C3: for every interval size s that divides 60 and every index i below
\* 1440/s, time_to_range_index of the start of index_to_time_range(i, s) is i.
C3_RoundTrip ==
    (/\ IndexToTimeRangeDone
     /\ Divides60(idx.interval_size)
     /\ idx.index < 1440 \div idx.interval_size)
    => /\ ~IsPanic(idx.result)
       /\ time_to_range_index(idx.result.start, idx.interval_size)
            = [tag |-> "index", value |-> idx.index]

\* the last index of a 20-minute grid, 71, starts at 23:40:00
C3_Witness ==
    /\ IndexToTimeRangeDone
    /\ idx.interval_size = 20
    /\ idx.index = 71
    /\ idx.result.tag = "range"
    /\ idx.result.start = hms(23, 40, 0)

\* C4: an index whose computed end is at or past 1440 minutes gets the end
\* time 23:59:59.
C4_LastEndIsEndOfDay ==
    (/\ IndexToTimeRangeDone
     /\ ~IsPanic(idx.result)
     /\ (idx.index + 1) * idx.interval_size >= 1440)
    => idx.result.end = hms(23, 59, 59)

(***************************************************************************)
(* Properties of DaySchedule (SpecDay).                                    *)
(***************************************************************************)
Last(log) == log[Len(log)]
Range(w) == {w[k] : k \in 1..Len(w)}
IndexOf(t) == time_to_range_index(t, 15).value
StatusAt(d, t) == DaySchedule_get_time_status(d, t)

\* C1: set_time_status sets exactly the blocks with index in
\* [index(start_time), index(end_time)) to the status and leaves every other
\* block as it was; get_time_status then returns the new status for the times
\* whose index is in the range and the prior status for the others.
C1_SetExactlyRange ==
    [][Len(dayLog') = Len(dayLog) + 1 =>
         \E c \in {Last(dayLog')} :
         \E si \in {IndexOf(c.start_time)} :
         \E ei \in {IndexOf(c.end_time)} :
             /\ Len(day'.blocks) = Len(day.blocks)
             /\ Range(c.written) = {i \in 0..95 : si <= i /\ i < ei}
             /\ \A i \in 0..95 :
                   /\ day'.blocks[i + 1].block_type
                        = IF si <= i /\ i < ei THEN c.status
                          ELSE day.blocks[i + 1].block_type
                   /\ day'.blocks[i + 1].start = day.blocks[i + 1].start
                   /\ day'.blocks[i + 1].end = day.blocks[i + 1].end
             /\ \A t \in QueryTimes :
                   StatusAt(day', t)
                     = IF si <= IndexOf(t) /\ IndexOf(t) < ei
                       THEN [tag |-> "status", value |-> c.status]
                       ELSE StatusAt(day, t)
    ]_vars

\* after set_time_status(02:15, 03:15, Free) on a new day, 02:17 and 02:48 are
\* Free, and 02:14:59 and 03:15 are still Busy
C1_Witness ==
    /\ Len(dayLog) = 1
    /\ dayLog[1].start_time = hms(2, 15, 0)
    /\ dayLog[1].end_time = hms(3, 15, 0)
    /\ dayLog[1].status = "Free"
    /\ StatusAt(day, hms(2, 17, 0)).value = "Free"
    /\ StatusAt(day, hms(2, 48, 0)).value = "Free"
    /\ StatusAt(day, hms(2, 14, 59)).value = "Busy"
    /\ StatusAt(day, hms(3, 15, 0)).value = "Busy"

\* C5: the blocks partition the day: 1440/interval_size of them, the first
\* starting at 00:00:00, each starting strictly before it ends, each ending
\* where the next starts, the last ending at the end of the day.
C5_BlocksPartitionDay ==
    LET n == Len(day.blocks)
    IN  /\ n = 1440 \div day.interval_size
        /\ day.blocks[1].start = hms(0, 0, 0)
        /\ \A k \in 1..n : day.blocks[k].start.secs < day.blocks[k].end.secs
        /\ \A k \in 1..(n - 1) : day.blocks[k].end = day.blocks[k + 1].start
        /\ day.blocks[n].end = hms(23, 59, 59)

Aligned(t) == t.secs % (15 * 60) = 0

\* C6: for block-aligned t1 <= t2 <= t3, set_time_status(t1, t2, a) followed by
\* set_time_status(t2, t3, b) writes no block twice, the first call does not
\* write the block of t2, and afterwards the blocks of [t1, t2) are a and the
\* blocks of [t2, t3) are b.
C6_AdjacentWritesCompose ==
    \A k \in 1..(Len(dayLog) - 1) :
        LET c1 == dayLog[k]
            c2 == dayLog[k + 1]
            i1 == IndexOf(c1.start_time)
            i2 == IndexOf(c1.end_time)
            i3 == IndexOf(c2.end_time)
        IN  (/\ c1.end_time = c2.start_time
             /\ Aligned(c1.start_time) /\ Aligned(c1.end_time) /\ Aligned(c2.end_time)
             /\ c1.start_time.secs <= c1.end_time.secs
             /\ c2.start_time.secs <= c2.end_time.secs)
            => /\ Range(c1.written) \cap Range(c2.written) = {}
               /\ Cardinality(Range(c1.written)) = Len(c1.written)
               /\ Cardinality(Range(c2.written)) = Len(c2.written)
               /\ i2 \notin Range(c1.written)
               /\ i2 < i3 => i2 \in Range(c2.written)
               /\ k + 1 = Len(dayLog) =>
                     /\ \A i \in i1..(i2 - 1) : day.blocks[i + 1].block_type = c1.status
                     /\ \A i \in i2..(i3 - 1) : day.blocks[i + 1].block_type = c2.status

\* [00:00, 02:15) set to Free and then [02:15, 03:15) set to Busy: blocks 0 to 8
\* are Free and block 9, the block of 02:15, was written by the second call
C6_Witness ==
    /\ Len(dayLog) = 2
    /\ dayLog[1].start_time = hms(0, 0, 0)
    /\ dayLog[1].end_time = hms(2, 15, 0)
    /\ dayLog[1].status = "Free"
    /\ dayLog[2].start_time = hms(2, 15, 0)
    /\ dayLog[2].end_time = hms(3, 15, 0)
    /\ dayLog[2].status = "Busy"
    /\ dayLog[1].written = <<0, 1, 2, 3, 4, 5, 6, 7, 8>>
    /\ dayLog[2].written = <<9, 10, 11, 12>>
    /\ day.blocks[9].block_type = "Free"
    /\ day.blocks[10].block_type = "Busy"

AllBlocks(d, status) ==
    /\ Len(d.blocks) = 96
    /\ \A k \in 1..Len(d.blocks) : d.blocks[k].block_type = status

\* C7 as claimed: a new DaySchedule, and every weekday of a new WeekSchedule,
\* has 96 blocks, all Free.
C7_FreshAllFree ==
    /\ dayLog = <<>> => AllBlocks(day, "Free")
    /\ weekLog = <<>> => \A d \in Weekday : AllBlocks(week.days[d], "Free")

\* C7 as the code has it: a new DaySchedule, and every weekday of a new
\* WeekSchedule, has 96 blocks, all Busy.
C7_FreshAllBusy ==
    /\ dayLog = <<>> => AllBlocks(day, "Busy")
    /\ weekLog = <<>> => \A d \in Weekday : AllBlocks(week.days[d], "Busy")

\* the new day and the new week, before any call
C7_Witness ==
    /\ dayLog = <<>>
    /\ weekLog = <<>>
    /\ Len(day.blocks) = 96
    /\ StatusAt(day, hms(2, 17, 0)).value = "Busy"
    /\ DOMAIN week.days = Weekday

(***************************************************************************)
(* Properties of WeekSchedule (SpecWeek).                                  *)
(***************************************************************************)
\* C2: a set_time_status call naming weekday d changes no block of another
\* weekday, and get_time_status of another weekday returns what it returned
\* before the call.
C2_WeekIsolation ==
    [][Len(weekLog') = Len(weekLog) + 1 =>
         LET c == Last(weekLog')
         IN  \A d \in Weekday \ {c.day} :
                /\ week'.days[d] = week.days[d]
                /\ \A t \in QueryTimes :
                      WeekSchedule_get_time_status(week', d, t)
                        = WeekSchedule_get_time_status(week, d, t)
    ]_vars

\* Tuesday 02:15 to 03:15 set to Free: Tuesday is Free at 02:17 and 02:48,
\* Monday and Wednesday are Busy there
C2_Witness ==
    /\ Len(weekLog) = 1
    /\ weekLog[1].day = "Tue"
    /\ weekLog[1].start_time = hms(2, 15, 0)
    /\ weekLog[1].end_time = hms(3, 15, 0)
    /\ weekLog[1].status = "Free"
    /\ WeekSchedule_get_time_status(week, "Tue", hms(2, 17, 0)).value = "Free"
    /\ WeekSchedule_get_time_status(week, "Tue", hms(2, 48, 0)).value = "Free"
    /\ WeekSchedule_get_time_status(week, "Mon", hms(2, 17, 0)).value = "Busy"
    /\ WeekSchedule_get_time_status(week, "Wed", hms(2, 48, 0)).value = "Busy"

(***************************************************************************)
(* Properties of BashScriptTask (Spec).                                    *)
(***************************************************************************)
StartCalled == \E k \in 1..Len(calls) : calls[k].op = "start"

\* C8: a constructed task on which start has not been called owns no process
\* and every status() call on it returned Waiting; a start whose spawn succeeded
\* returned Running and left the handle of the new process in the task.
C8_WaitingUntilStart ==
    /\ (task # Absent /\ ~StartCalled) =>
          /\ task.proc = None
          /\ \A k \in 1..Len(calls) : calls[k].op = "status" => calls[k].ret = Waiting
    /\ \A k \in 1..Len(calls) :
          (calls[k].op = "start" /\ calls[k].spawned.tag = "Some") =>
              /\ calls[k].ret = Running
              /\ k = Len(calls) =>
                    /\ task.proc = Some([pid |-> calls[k].spawned.value, status |-> None])
                    /\ os[calls[k].spawned.value].state # "none"

\* new, two status() calls that return Waiting, then a start that spawns
C8_Witness ==
    /\ Len(calls) = 4
    /\ calls[1].op = "new" /\ calls[1].ret.tag = "Ok"
    /\ calls[2] = Call("status", Waiting)
    /\ calls[3] = Call("status", Waiting)
    /\ calls[4].op = "start" /\ calls[4].ret = Running
    /\ task.proc.tag = "Some"
    /\ os[task.proc.value.pid].state = "running"

StatusStep == Len(calls') = Len(calls) + 1 /\ Last(calls').op = "status"

\* C9: status() on a task that owns a process returns Running when the process
\* has not exited, Finished when it exited with success, and Error with the
\* exit status in its message when it exited otherwise.
C9_StatusMapsProcessState ==
    [][(StatusStep /\ task.proc.tag = "Some") =>
         \E p \in {os[task.proc.value.pid]} :
         \E ret \in {Last(calls').ret} :
             /\ p.state = "running" => ret = Running
             /\ (p.state # "running" /\ success(p.exit)) => ret = Finished
             /\ (p.state # "running" /\ ~success(p.exit)) =>
                   ret = Error(<<"Script failed with status ", Display(p.exit)>>)
    ]_vars

\* a started task whose status() returned Running and, after the script ended
\* with code 127, Error with that exit status
C9_Witness ==
    /\ Len(calls) = 4
    /\ calls[2].op = "start" /\ calls[2].ret = Running
    /\ calls[3] = Call("status", Running)
    /\ calls[4] = Call("status", Error(<<"Script failed with status ",
                                          <<"exit status: ", 127>>>>))
    /\ os[task.proc.value.pid].state = "reaped"

\* C10: what kill() reported for a task that owns a process (Killed, or
\* Error(<<"Failed to kill script">>)) is what every later status() call on that
\* process reports.
C10_StatusReportsKillOutcome ==
    \A k \in 1..Len(calls) : \A j \in (k + 1)..Len(calls) :
        (/\ calls[k].op = "kill"
         /\ calls[k].ret # Waiting
         /\ calls[j].op = "status"
         /\ \A i \in (k + 1)..(j - 1) : calls[i].op # "start")
        => calls[j].ret = calls[k].ret

KillStep == Len(calls') = Len(calls) + 1 /\ Last(calls').op = "kill"
KillError == Error(<<"Failed to kill script">>)

\* C11: kill() on a task that owns a process returns Killed or
\* Error("Failed to kill script") and nothing else: Killed exactly when the kill
\* of the child succeeded, which for a child not yet waited for is that the
\* signal was delivered (a running process then has the signal pending) and for
\* a child already waited for, to which nothing is sent, is what the standard
\* library answers.
C11_KillReportsDelivery ==
    [][(KillStep /\ task.proc.tag = "Some") =>
         \E c \in {Last(calls')} :
         \E child \in {task.proc.value} :
             /\ c.ret \in {Killed, KillError}
             /\ child.status = None => (c.ret = Killed <=> c.delivered)
             /\ child.status # None => (c.ret = Killed <=> c.exited_is_ok)
             /\ (c.ret = Killed /\ os[child.pid].state = "running") =>
                   os'[child.pid].kill_pending
             /\ c.ret = KillError => os' = os
    ]_vars

\* on one running process, a kill() whose signal is not delivered returns the
\* error and a kill() whose signal is delivered returns Killed
C11_Witness ==
    /\ Len(calls) = 4
    /\ calls[2].op = "start" /\ calls[2].ret = Running
    /\ calls[3].op = "kill" /\ calls[3].ret = KillError /\ ~calls[3].delivered
    /\ calls[4].op = "kill" /\ calls[4].ret = Killed /\ calls[4].delivered
    /\ os[task.proc.value.pid].state = "running"
    /\ os[task.proc.value.pid].kill_pending

\* C12: kill() on a task that owns no process returns Waiting, sends no signal
\* and leaves the task as it was, without a handle; status() on a task without
\* a handle returns Waiting, so it still does after any number of such kills.
C12_KillWithoutProcessIsNoOp ==
    [][/\ (KillStep /\ task.proc = None) =>
             /\ Last(calls').ret = Waiting
             /\ task' = task
             /\ os' = os
       /\ (StatusStep /\ task.proc = None) =>
             /\ Last(calls').ret = Waiting
             /\ task' = task
             /\ os' = os
    ]_vars

\* new, two kill() calls that return Waiting, and a status() that returns Waiting
C12_Witness ==
    /\ Len(calls) = 4
    /\ calls[1].op = "new" /\ calls[1].ret.tag = "Ok"
    /\ calls[2].op = "kill" /\ calls[2].ret = Waiting
    /\ calls[3].op = "kill" /\ calls[3].ret = Waiting
    /\ calls[4] = Call("status", Waiting)
    /\ task.proc = None
    /\ \A p \in Pids : os[p] = NotSpawned

StartStep == Len(calls') = Len(calls) + 1 /\ Last(calls').op = "start"

\* C13: a start() whose spawn fails returns Error(message) and leaves the task
\* and every process as they were (a task without a handle still has none); a
\* start() whose spawn succeeds returns Running, after failed starts too.
C13_FailedStartChangesNothing ==
    [][StartStep =>
         \E c \in {Last(calls')} :
            /\ c.spawned = None =>
                  /\ c.ret.tag = "Error"
                  /\ c.ret.msg[1] = "Failed to start script: "
                  /\ task' = task
                  /\ os' = os
            /\ c.spawned # None =>
                  /\ c.ret = Running
                  /\ task'.proc = Some([pid |-> c.spawned.value, status |-> None])
    ]_vars

\* new, a start() that fails, a status() that returns Waiting, a start() that
\* returns Running
C13_Witness ==
    /\ Len(calls) = 4
    /\ calls[2].op = "start" /\ calls[2].spawned = None /\ calls[2].ret.tag = "Error"
    /\ calls[3] = Call("status", Waiting)
    /\ calls[4].op = "start" /\ calls[4].ret = Running
    /\ task.proc # None

\* the status() calls so far that reported the exit of the process the task
\* owns now: no start has succeeded since
ExitReports ==
    {k \in 1..Len(calls) :
        /\ calls[k].op = "status"
        /\ calls[k].ret.tag \in {"Finished", "Error"}
        /\ \A j \in (k + 1)..Len(calls) :
              ~(calls[j].op = "start" /\ calls[j].ret = Running)}

\* C14: a status() call made while the process is alive returns Running and
\* changes neither the task nor the process; once a status() call has reported
\* the exit of the process as Finished or Error(message), every later status()
\* call on that process returns the same value and changes nothing.
C14_StatusIdempotent ==
    [][(StatusStep /\ task.proc # None) =>
         \E c \in {Last(calls')} : \E child \in {task.proc.value} :
            /\ os[child.pid].state = "running" => c.ret = Running
            /\ c.ret = Running => (task' = task /\ os' = os)
            /\ \A k \in ExitReports :
                  /\ c.ret = calls[k].ret
                  /\ task' = task
                  /\ os' = os
    ]_vars

\* new, start, and after the script ended with code 127 two status() calls
\* that return the same Error
C14_Witness ==
    /\ Len(calls) = 4
    /\ calls[2].op = "start" /\ calls[2].ret = Running
    /\ calls[3] = Call("status", Error(<<"Script failed with status ", Display(Exited(127))>>))
    /\ calls[4] = calls[3]
    /\ task.proc # None
    /\ task.proc.value.status = Some(Exited(127))

\* the task owns a process
Owned == task # Absent /\ task.proc # None

\* the latest call is a status() that reported the end of the process the task
\* owns: Finished for exit code 0, Error with the exit status otherwise
ExitReported ==
    /\ Owned
    /\ calls # <<>>
    /\ Last(calls).op = "status"
    /\ \E child \in {task.proc.value} :
          /\ os[child.pid].state = "reaped"
          /\ os[child.pid].exit = Exited(0) => Last(calls).ret = Finished
          /\ os[child.pid].exit # Exited(0) =>
                Last(calls).ret = Error(<<"Script failed with status ",
                                         Display(os[child.pid].exit)>>)

\* C15: when the owner keeps polling and every running process ends, a task
\* that was started gets a status() that reports the end of its process,
\* Finished for exit code 0 and Error(message) otherwise, and from some point
\* on no status() call returns Running.
C15_PollingReportsExit ==
    /\ Owned ~> ExitReported
    /\ <>[](calls # <<>> /\ Last(calls).op = "status" => Last(calls).ret # Running)

\* a status() that reports the end of a script that ended with code 127, as one
\* that invokes a command that does not exist does
C15_Witness ==
    /\ ExitReported
    /\ os[task.proc.value.pid].exit = Exited(127)
    /\ Last(calls).ret.tag = "Error"

\* none of the owner, group and other execute bits (0o100, 0o010, 0o001) is set
ExecBitsUnset(mode) ==
    /\ (mode \div 64) % 2 = 0
    /\ (mode \div 8) % 2 = 0
    /\ mode % 2 = 0

NewCalls == {k \in 1..Len(calls) : calls[k].op = "new"}

\* C16: BashScriptTask::new fails with NotFound for a path that does not exist;
\* otherwise with InvalidInput for one that is not a regular file, whatever its
\* mode; otherwise with PermissionDenied exactly when no execute bit is set;
\* otherwise it returns a task without a process, whose status is Waiting. No
\* process is spawned by it.
C16_NewValidatesInOrder ==
    /\ \A k \in NewCalls :
          \E c \in {calls[k]} :
             /\ ~c.path.exists => c.ret = Err("NotFound")
             /\ (c.path.exists /\ ~c.path.is_file) => c.ret = Err("InvalidInput")
             /\ (c.path.exists /\ c.path.is_file) =>
                   /\ c.ret = Err("PermissionDenied") <=> ExecBitsUnset(c.path.mode)
                   /\ ~ExecBitsUnset(c.path.mode) =>
                         /\ c.ret.tag = "Ok"
                         /\ c.ret.value.proc = None
                         /\ c.ret.value.script = c.path
                         /\ BashScriptTask_status(c.ret.value, os).ret = Waiting
    /\ NewCalls = 1..Len(calls) => \A p \in Pids : os[p] = NotSpawned

\* new called on a missing path, on a directory that has execute bits, on a
\* file of mode 0o644 and on a file of mode 0o755
C16_Witness ==
    /\ Len(calls) = 4
    /\ NewCalls = 1..4
    /\ calls[1].ret = Err("NotFound")
    /\ calls[2].ret = Err("InvalidInput") /\ calls[2].path.mode = 16877
    /\ calls[3].ret = Err("PermissionDenied") /\ calls[3].path.mode = 33188
    /\ calls[4].ret.tag = "Ok" /\ calls[4].path.mode = 33261
    /\ task = calls[4].ret.value

TimeToRangeIndexDone == idx.fn = "time_to_range_index" /\ idx.done

\* C17: index_to_time_range panics when the interval size is above 60 and when
\* the index is at or above 1440/interval_size; time_to_range_index panics
\* when the interval size is above 60; for an interval size that divides 60,
\* and an index below 1440/interval_size, neither panics.
C17_FailsOutOfRange ==
    /\ IndexToTimeRangeDone =>
          /\ idx.interval_size > 60 => IsPanic(idx.result)
          /\ (idx.interval_size > 0 /\ idx.index * idx.interval_size >= 1440)
                => IsPanic(idx.result)
          /\ (idx.interval_size > 0 /\ idx.index >= 1440 \div idx.interval_size)
                => IsPanic(idx.result)
          /\ (Divides60(idx.interval_size) /\ idx.index < 1440 \div idx.interval_size)
                => idx.result.tag = "range"
    /\ TimeToRangeIndexDone =>
          /\ idx.interval_size > 60 => IsPanic(idx.result)
          /\ Divides60(idx.interval_size) => idx.result.tag = "index"

\* time_to_range_index(23:59:59, 61) panics
C17_Witness ==
    /\ TimeToRangeIndexDone
    /\ idx.interval_size = 61
    /\ idx.time = hms(23, 59, 59)
    /\ idx.result = Panic("Interval size cannot be greater than 60 minutes")

\* a time in every block of the day, with the first and the last second of it:
\* time_to_range_index takes every value it has on a NaiveTime on these
WellFormedTimes ==
    {hms(h, m, 0) : h \in 0..23, m \in {0, 15, 30, 45}} \cup {hms(23, 59, 59)}

\* set_time_status(start_time, end_time, status) on d sets block i to status
SetsBlock(d, start_time, end_time, status, i) ==
    \E r \in {DaySchedule_set_time_status(d, start_time, end_time, status)} :
        /\ ~IsPanic(r)
        /\ i \in Range(r.written)
        /\ r.self.blocks[i + 1].block_type = status

\* C18 as claimed: for every block index i in 0..95 and each status there are
\* times start_time and end_time such that set_time_status(start_time,
\* end_time, status) sets block i to that status.
C18_EveryBlockWritable ==
    \A i \in 0..95 : \A status \in TimeStatus :
        \E start_time \in WellFormedTimes : \E end_time \in WellFormedTimes :
            SetsBlock(day, start_time, end_time, status, i)

\* C19 as claimed: every process the task spawned that is still running is the
\* one its handle refers to, so the task has at most one running process and
\* none that status() and kill() cannot reach.
C19_RunningProcessIsOwned ==
    \A p \in Pids :
        os[p].state = "running" => (Owned /\ task.proc.value.pid = p)

\* C20 as claimed: kill() returns Killed only when the process of the task is
\* still running at the call, and not once a status() call has reported the end
\* of that process; a status() call after such a report returns the same
\* outcome again.
C20_KilledOnlyFromRunning ==
    [][/\ (KillStep /\ Last(calls').ret = Killed) =>
             /\ Owned
             /\ os[task.proc.value.pid].state = "running"
             /\ ExitReports = {}
       /\ (StatusStep /\ Owned) =>
             \A k \in ExitReports : Last(calls').ret = calls[k].ret
    ]_vars

=============================================================================
